---- MODULE Spec2Model ----
(***************************************************************************)
(* Model of the C/C++ flowchart synthesizer CppParser.parseFlowchart      *)
(* (src/src/CppParser.ts).  A statement is a sequence of one-character     *)
(* strings, so that startsWith / includes / regular expressions of the    *)
(* source are computed on the text itself.  The Mermaid output is the     *)
(* sequence of declarations appended to the string `mermaid`.             *)
(***************************************************************************)
EXTENDS Integers, Sequences, FiniteSets, TLC

\* ------------------------------------------------------------------------
\* Bounds of the model
\* ------------------------------------------------------------------------
MaxLines == 4

MaxShort == 2

MaxCases == 2

MaxDecl == 3

MaxCalls == 3

MaxCallLines == 1

MaxTermLines == 3

MaxHandlers == 2

MaxPending == 2

MaxIncludes == 2

\* ------------------------------------------------------------------------
\* String helpers (JavaScript String methods used by the source)
\* ------------------------------------------------------------------------
Whitespace == {" ", "\t"}

startsWith(text, prefix) ==
    /\ Len(text) >= Len(prefix)
    /\ SubSeq(text, 1, Len(prefix)) = prefix

endsWith(text, suffix) ==
    /\ Len(text) >= Len(suffix)
    /\ SubSeq(text, Len(text) - Len(suffix) + 1, Len(text)) = suffix

includes(text, ch) == \E k \in 1..Len(text) : text[k] = ch

\* text.substring(0, n)
substring(text, n) == SubSeq(text, 1, IF n < Len(text) THEN n ELSE Len(text))

\* String.prototype.trim
trim(text) ==
    LET keep == {k \in 1..Len(text) : text[k] \notin Whitespace}
        Min(S) == CHOOSE x \in S : \A y \in S : x <= y
        Max(S) == CHOOSE x \in S : \A y \in S : x >= y
    IN  IF keep = {} THEN <<>> ELSE SubSeq(text, Min(keep), Max(keep))

\* text.replace(/[set]/g, rep): every character of `set` becomes `rep`
RECURSIVE replaceAll(_, _, _)
replaceAll(text, set, rep) ==
    IF text = <<>> THEN <<>>
    ELSE (IF Head(text) \in set THEN rep ELSE <<Head(text)>>)
         \o replaceAll(Tail(text), set, rep)

\* position of the first occurrence of `pat` in text at or after `from`, 0 if none
indexOf(text, pat, from) ==
    LET hits == {p \in from..(Len(text) - Len(pat) + 1) :
                    SubSeq(text, p, p + Len(pat) - 1) = pat}
    IN  IF hits = {} THEN 0 ELSE CHOOSE p \in hits : \A q \in hits : p <= q

\* text.replace(pat, '') with a string pattern: the first occurrence only
replaceFirst(text, pat) ==
    LET p == indexOf(text, pat, 1)
    IN  IF p = 0 THEN text
        ELSE SubSeq(text, 1, p - 1) \o SubSeq(text, p + Len(pat), Len(text))

\* ------------------------------------------------------------------------
\* Keywords and literals of the source
\* ------------------------------------------------------------------------
KwStruct == <<"s","t","r","u","c","t">>
KwClass == <<"c","l","a","s","s">>
KwEnum == <<"e","n","u","m">>
KwUnion == <<"u","n","i","o","n">>
KwNamespace == <<"n","a","m","e","s","p","a","c","e">>
KwUsingNamespace == <<"u","s","i","n","g"," ","n","a","m","e","s","p","a","c","e">>
KwTemplate == <<"t","e","m","p","l","a","t","e">>
KwIf == <<"i","f">>
KwElseIf == <<"e","l","s","e"," ","i","f">>
KwElse == <<"e","l","s","e">>
KwSwitch == <<"s","w","i","t","c","h">>
KwCase == <<"c","a","s","e">>
KwDefault == <<"d","e","f","a","u","l","t">>
KwWhile == <<"w","h","i","l","e">>
KwFor == <<"f","o","r">>
KwDo == <<"d","o">>
KwTry == <<"t","r","y">>
KwCatch == <<"c","a","t","c","h">>
KwReturn == <<"r","e","t","u","r","n">>
KwBreak == <<"b","r","e","a","k">>
KwContinue == <<"c","o","n","t","i","n","u","e">>
KwGoto == <<"g","o","t","o">>
KwThrow == <<"t","h","r","o","w">>

DeclKeywords == {KwStruct, KwClass, KwEnum, KwUnion, KwNamespace}

JumpKeywords == {KwReturn, KwBreak, KwContinue, KwGoto, KwThrow}

LblElse == <<"e","l","s","e">>
LblSwitch == <<"S","w","i","t","c","h",":"," ">>
LblDo == <<"D","O"," ","l","o","o","p"," ","s","t","a","r","t">>
LblTry == <<"T","R","Y"," ","B","l","o","c","k">>
LblCatch == <<"C","A","T","C","H",":"," ">>
LblQuestion == <<" ","?">>
LblColon == <<":"," ">>
LblEllipsis == <<".",".",".">>

\* text.match(/^(struct|class|enum|union|namespace)\s+/)
matchDecl(text) ==
    \E kw \in DeclKeywords :
        /\ startsWith(text, kw)
        /\ Len(text) > Len(kw)
        /\ text[Len(kw) + 1] \in Whitespace

\* mutant: only preprocessor lines are skipped
skipLineHashOnly(text) == startsWith(text, <<"#">>)

\* text.startsWith('#') || startsWith('using namespace') || startsWith('template')
skipLine(text) ==
    \/ startsWith(text, <<"#">>)
    \/ startsWith(text, KwUsingNamespace)
    \/ startsWith(text, KwTemplate)

\* text.match(/^(return|break|continue|goto|throw)/)
matchJump(text) == \E kw \in JumpKeywords : startsWith(text, kw)

\* ------------------------------------------------------------------------
\* cleanLabel and extractCondition
\* ------------------------------------------------------------------------
LabelLimit == 50

LabelKeep == 47

\* mutant: the cut keeps LabelLimit characters before the ellipsis
cleanLabelLongCut(text) ==
    LET quoted == replaceAll(text, {"\""}, <<"'">>)
        spaced == replaceAll(quoted, {"[", "]", "{", "}"}, <<" ">>)
        amp == replaceAll(spaced, {"&"}, <<"&","a","m","p",";">>)
        lt == replaceAll(amp, {"<"}, <<"&","l","t",";">>)
        safeText == replaceAll(lt, {">"}, <<"&","g","t",";">>)
    IN  IF Len(safeText) > LabelLimit
        THEN substring(safeText, LabelLimit) \o LblEllipsis
        ELSE safeText

cleanLabel(text) ==
    LET quoted == replaceAll(text, {"\""}, <<"'">>)
        spaced == replaceAll(quoted, {"[", "]", "{", "}"}, <<" ">>)
        amp == replaceAll(spaced, {"&"}, <<"&","a","m","p",";">>)
        lt == replaceAll(amp, {"<"}, <<"&","l","t",";">>)
        safeText == replaceAll(lt, {">"}, <<"&","g","t",";">>)
    IN  IF Len(safeText) > LabelLimit
        THEN substring(safeText, LabelKeep) \o LblEllipsis
        ELSE safeText

\* new RegExp(`${keyword}\\s*\\((.*)\\)`): leftmost occurrence of keyword that is
\* followed by optional whitespace and "(", with a ")" somewhere after it; the
\* greedy group runs to the last ")" of the text.
extractCondition(text, keyword) ==
    LET n == Len(text)
        openAfter(p) ==
            LET rest == {q \in (p + Len(keyword))..n : text[q] \notin Whitespace}
            IN  IF rest = {} THEN 0
                ELSE LET q == CHOOSE x \in rest : \A y \in rest : x <= y
                     IN  IF text[q] = "(" THEN q ELSE 0
        closeAfter(q) ==
            LET cl == {r \in (q + 1)..n : text[r] = ")"}
            IN  IF cl = {} THEN 0 ELSE CHOOSE x \in cl : \A y \in cl : x >= y
        starts == {p \in 1..n :
                      /\ p + Len(keyword) - 1 <= n
                      /\ SubSeq(text, p, p + Len(keyword) - 1) = keyword
                      /\ openAfter(p) # 0
                      /\ closeAfter(openAfter(p)) # 0}
        fallback == trim(replaceAll(replaceFirst(text, keyword), {"(", ")"}, <<>>))
    IN  IF starts = {} THEN fallback
        ELSE LET p == CHOOSE x \in starts : \A y \in starts : x <= y
                 q == openAfter(p)
                 group == SubSeq(text, q + 1, closeAfter(q) - 1)
             IN  IF group = <<>> THEN fallback
                 ELSE trim(IF endsWith(group, <<")">>)
                           THEN SubSeq(group, 1, Len(group) - 1)
                           ELSE group)

\* ------------------------------------------------------------------------
\* preprocessCode and the split into statements
\* ------------------------------------------------------------------------
\* code.replace(/\/\*[\s\S]*?\*\//g, '')
RECURSIVE removeBlockComments(_)
removeBlockComments(code) ==
    LET p == indexOf(code, <<"/", "*">>, 1)
        q == IF p = 0 THEN 0 ELSE indexOf(code, <<"*", "/">>, p + 2)
    IN  IF q = 0 THEN code
        ELSE SubSeq(code, 1, p - 1)
             \o removeBlockComments(SubSeq(code, q + 2, Len(code)))

\* text.split('\n')
RECURSIVE split(_)
split(text) ==
    LET p == indexOf(text, <<"\n">>, 1)
    IN  IF p = 0 THEN << text >>
        ELSE << SubSeq(text, 1, p - 1) >> \o split(SubSeq(text, p + 1, Len(text)))

\* ls.join('\n')
RECURSIVE join(_)
join(ls) ==
    IF ls = <<>> THEN <<>>
    ELSE IF Len(ls) = 1 THEN ls[1]
    ELSE ls[1] \o <<"\n">> \o join(Tail(ls))

\* line.substring(0, line.indexOf('//')) when the line has a //
stripLineComment(line) ==
    LET idx == indexOf(line, <<"/", "/">>, 1)
    IN  IF idx # 0 THEN SubSeq(line, 1, idx - 1) ELSE line

\* ls.map(l => l.trim()).filter(l => l.length > 0)
trimmedNonEmpty(ls) ==
    SelectSeq([k \in 1..Len(ls) |-> trim(ls[k])], LAMBDA l : l # <<>>)

preprocessCode(code) ==
    LET noBlockComments == split(removeBlockComments(code))
        cleanLines == [k \in 1..Len(noBlockComments) |->
                          stripLineComment(noBlockComments[k])]
    IN  join(trimmedNonEmpty(cleanLines))

\* const lines = cleanCode.split('\n').map(l => l.trim()).filter(l => l.length > 0)
splitStatements(code) == trimmedNonEmpty(split(preprocessCode(code)))

\* ------------------------------------------------------------------------
\* Output declarations
\* ------------------------------------------------------------------------
Start == <<"Start">>

\* `Node${nodeIdCounter}`
NodeId(k) == <<"Node", k>>

\* `${id}<shape>"${label}"<shape>:::${class};`
NodeDecl(id, shape, label, class) ==
    [kind |-> "node", id |-> id, src |-> id, shape |-> shape,
     label |-> label, class |-> class]

\* `${from} --> ${to};`   `${from} -.-> ${to};`   `${from} -- ${tag} --> ${to};`
EdgeDecl(from, to, arrow, tag) ==
    [kind |-> "edge", id |-> to, src |-> from, shape |-> arrow,
     label |-> tag, class |-> ""]

\* what an array read past its bounds gives, as the template literal renders it
Undefined == <<"undefined">>

\* stack[stack.length - 1]
Top(stk) == IF Len(stk) > 0 THEN stk[Len(stk)] ELSE Undefined

Pop(stk) == SubSeq(stk, 1, Len(stk) - 1)

\* stack[stack.length - 1] = id, guarded by stack.length > 0
ReplaceTop(stk, id) ==
    IF Len(stk) > 0 THEN [stk EXCEPT ![Len(stk)] = id] ELSE stk

\* ------------------------------------------------------------------------
\* The rules of the loop body of parseFlowchart
\* ------------------------------------------------------------------------
\* mutant: the pop without its stack.length > 1 guard
closeBlockUnguarded(stk, sw) ==
    [stack |-> Pop(stk),
     switchStack |-> IF Len(sw) > 0 /\ Len(stk) > 0 /\ Top(stk) = Top(sw).id
                     THEN Pop(sw) ELSE sw]

\* closing brace outside an ignored block: pop the scope (and the switch it closes)
closeBlock(stk, sw) ==
    IF Len(stk) > 1
    THEN [stack |-> Pop(stk),
          switchStack |-> IF Len(sw) > 0 /\ Top(stk) = Top(sw).id
                          THEN Pop(sw) ELSE sw]
    ELSE [stack |-> stk, switchStack |-> sw]

\* 1. if / else if
ifBranch(currentId, parentId, displayLabel, stk, sw) ==
    [out |-> << NodeDecl(currentId, "{}",
                         extractCondition(displayLabel, KwIf) \o LblQuestion,
                         "decision"),
                EdgeDecl(parentId, currentId, "-->", <<>>) >>,
     stack |-> Append(stk, currentId),
     switchStack |-> sw]

\* mutant: the pop of else / catch without its stack.length > 1 guard
popBranchUnguarded(stk) == Pop(stk)

\* if (stack.length > 1) stack.pop()  of the else and catch branches
popBranch(stk) == IF Len(stk) > 1 THEN Pop(stk) ELSE stk

\* mutant: the edge only when a scope is open
edgeFromTopNested(stk, currentId, arrow) ==
    IF Len(stk) > 1 THEN << EdgeDecl(Top(stk), currentId, arrow, <<>>) >> ELSE <<>>

\* the edge of the else and catch branches, from the top left after the pop
edgeFromTop(stk, currentId, arrow) ==
    IF Len(stk) > 0 THEN << EdgeDecl(Top(stk), currentId, arrow, <<>>) >> ELSE <<>>

\* mutant: the else node is not pushed
elseBranchNoPush(currentId, parentId, displayLabel, stk, sw) ==
    LET popped == popBranch(stk)
    IN  [out |-> << NodeDecl(currentId, "[]", LblElse, "default") >>
                 \o edgeFromTop(popped, currentId, "-->"),
         stack |-> popped,
         switchStack |-> sw]

\* 2. else
elseBranch(currentId, parentId, displayLabel, stk, sw) ==
    LET popped == popBranch(stk)
    IN  [out |-> << NodeDecl(currentId, "[]", LblElse, "default") >>
                 \o edgeFromTop(popped, currentId, "-->"),
         stack |-> Append(popped, currentId),
         switchStack |-> sw]

\* 3. switch
switchBranch(currentId, parentId, displayLabel, stk, sw) ==
    [out |-> << NodeDecl(currentId, "{}",
                         LblSwitch \o extractCondition(displayLabel, KwSwitch),
                         "switchNode"),
                EdgeDecl(parentId, currentId, "-->", <<>>) >>,
     stack |-> Append(stk, currentId),
     switchStack |-> Append(sw, [id |-> currentId, hasDefault |-> FALSE])]

\* 4. case / default
caseBranch(currentId, parentId, displayLabel, stk, sw) ==
    LET switchNode == IF Len(sw) > 0 THEN Top(sw).id ELSE parentId
        caseLabel == replaceFirst(displayLabel, <<":">>)
    IN  [out |-> << NodeDecl(currentId, "[]", caseLabel, "decision"),
                    EdgeDecl(switchNode, currentId, "-->", caseLabel) >>,
         stack |-> ReplaceTop(stk, currentId),
         switchStack |-> sw]

\* 5. while / for
loopBranch(currentId, parentId, displayLabel, stk, sw, type) ==
    [out |-> << NodeDecl(currentId, "{}",
                         type \o LblColon \o extractCondition(displayLabel, type),
                         "decision"),
                EdgeDecl(parentId, currentId, "-->", <<>>) >>,
     stack |-> Append(stk, currentId),
     switchStack |-> sw]

\* 6. do
doBranch(currentId, parentId, displayLabel, stk, sw) ==
    [out |-> << NodeDecl(currentId, "()", LblDo, "decision"),
                EdgeDecl(parentId, currentId, "-->", <<>>) >>,
     stack |-> Append(stk, currentId),
     switchStack |-> sw]

\* 7. try
tryBranch(currentId, parentId, displayLabel, stk, sw) ==
    [out |-> << NodeDecl(currentId, "<>", LblTry, "catchNode"),
                EdgeDecl(parentId, currentId, "-->", <<>>) >>,
     stack |-> Append(stk, currentId),
     switchStack |-> sw]

\* 7. catch
catchBranch(currentId, parentId, displayLabel, stk, sw) ==
    LET popped == popBranch(stk)
    IN  [out |-> << NodeDecl(currentId, "<>",
                             LblCatch \o extractCondition(displayLabel, KwCatch),
                             "catchNode") >>
                 \o edgeFromTop(popped, currentId, "-.->"),
         stack |-> Append(popped, currentId),
         switchStack |-> sw]

\* mutant: the terminator becomes the attachment point of the next statement
jumpBranchReplacesTop(currentId, parentId, displayLabel, stk, sw) ==
    [out |-> << NodeDecl(currentId, "(())", displayLabel, "terminator"),
                EdgeDecl(parentId, currentId, "-->", <<>>) >>,
     stack |-> ReplaceTop(stk, currentId),
     switchStack |-> sw]

\* 8. return / break / continue / goto / throw
jumpBranch(currentId, parentId, displayLabel, stk, sw) ==
    [out |-> << NodeDecl(currentId, "(())", displayLabel, "terminator"),
                EdgeDecl(parentId, currentId, "-->", <<>>) >>,
     stack |-> stk,
     switchStack |-> sw]

\* 9. normal statement
normalBranch(currentId, parentId, displayLabel, stk, sw, text) ==
    [out |-> << NodeDecl(currentId, "[]", displayLabel,
                         IF includes(text, "(") THEN "process" ELSE "default"),
                EdgeDecl(parentId, currentId, "-->", <<>>) >>,
     stack |-> ReplaceTop(stk, currentId),
     switchStack |-> sw]

\* the if / else-if chain that classifies a statement and creates its node
createNode(text, counter, stk, sw) ==
    LET currentId == NodeId(counter)
        parentId == Top(stk)
        displayLabel == cleanLabel(text)
    IN  IF startsWith(text, KwIf) \/ startsWith(text, KwElseIf)
        THEN ifBranch(currentId, parentId, displayLabel, stk, sw)
        ELSE IF startsWith(text, KwElse)
        THEN elseBranch(currentId, parentId, displayLabel, stk, sw)
        ELSE IF startsWith(text, KwSwitch)
        THEN switchBranch(currentId, parentId, displayLabel, stk, sw)
        ELSE IF startsWith(text, KwCase) \/ startsWith(text, KwDefault)
        THEN caseBranch(currentId, parentId, displayLabel, stk, sw)
        ELSE IF startsWith(text, KwWhile) \/ startsWith(text, KwFor)
        THEN loopBranch(currentId, parentId, displayLabel, stk, sw,
                        IF startsWith(text, KwWhile) THEN KwWhile ELSE KwFor)
        ELSE IF startsWith(text, KwDo)
        THEN doBranch(currentId, parentId, displayLabel, stk, sw)
        ELSE IF startsWith(text, KwTry)
        THEN tryBranch(currentId, parentId, displayLabel, stk, sw)
        ELSE IF startsWith(text, KwCatch)
        THEN catchBranch(currentId, parentId, displayLabel, stk, sw)
        ELSE IF matchJump(text)
        THEN jumpBranch(currentId, parentId, displayLabel, stk, sw)
        ELSE normalBranch(currentId, parentId, displayLabel, stk, sw, text)

\* mutant: the counter is read but not advanced
postIncrementLost(counter) == counter

\* nodeIdCounter++ : the counter after the id was taken
postIncrement(counter) == counter + 1

\* mutant: every statement with a closing brace ends its iteration after the pop
onlyBraceAny(text) == includes(text, "}")

\* text === '}' || text === '};'
onlyBrace(text) == text \in {<<"}">>, <<"}", ";">>}

\* the body of the for loop: one statement, from the skip rules to the node
loopBody(text, counter, stk, sw, ign) ==
    LET same == [out |-> <<>>, counter |-> counter, stack |-> stk,
                 switchStack |-> sw, ignoreBlockLevel |-> ign]
        opens == includes(text, "{") /\ ~includes(text, "}")
        closes == includes(text, "}")
    IN  IF matchDecl(text)
        THEN [same EXCEPT !.ignoreBlockLevel =
                              IF includes(text, "{") THEN ign + 1 ELSE ign]
        ELSE IF skipLine(text) THEN same
        ELSE IF opens /\ ign > 0
        THEN [same EXCEPT !.ignoreBlockLevel = ign + 1]
        ELSE IF opens /\ text = <<"{">> THEN same
        ELSE IF closes /\ ign > 0
        THEN [same EXCEPT !.ignoreBlockLevel = ign - 1]
        ELSE LET closed == IF closes THEN closeBlock(stk, sw)
                           ELSE [stack |-> stk, switchStack |-> sw]
                 popped == [same EXCEPT !.stack = closed.stack,
                                        !.switchStack = closed.switchStack]
             IN  IF closes /\ onlyBrace(text) THEN popped
                 ELSE IF ign > 0 THEN popped
                 ELSE LET made == createNode(text, counter, closed.stack,
                                             closed.switchStack)
                      IN  [out |-> made.out, counter |-> postIncrement(counter),
                           stack |-> made.stack,
                           switchStack |-> made.switchStack,
                           ignoreBlockLevel |-> ign]

\* ------------------------------------------------------------------------
\* Statements of the inputs (lines after preprocessing, trimmed and non-empty)
\* ------------------------------------------------------------------------
\* a();
StCall == <<"a","(",")",";">>

\* b();
StCallB == <<"b","(",")",";">>

\* x = 1;
StAssign == <<"x"," ","="," ","1",";">>

\* }
StClose == <<"}">>

\* };
StCloseSemi == <<"}",";">>

\* {
StOpen == <<"{">>

\* if (c) {
StIf == <<"i","f"," ","(","c",")"," ","{">>

\* if (x > 0) {
StIfGt == <<"i","f"," ","(","x"," ",">"," ","0",")"," ","{">>

\* else {
StElse == <<"e","l","s","e"," ","{">>

\* } else {
StCloseElse == <<"}"," ","e","l","s","e"," ","{">>

\* switch (n) {
StSwitch == <<"s","w","i","t","c","h"," ","(","n",")"," ","{">>

\* case 1:
StCase1 == <<"c","a","s","e"," ","1",":">>

\* case 2:
StCase2 == <<"c","a","s","e"," ","2",":">>

\* default:
StDefault == <<"d","e","f","a","u","l","t",":">>

\* break;
StBreak == <<"b","r","e","a","k",";">>

\* while (x) {
StWhile == <<"w","h","i","l","e"," ","(","x",")"," ","{">>

\* for (;;) {
StFor == <<"f","o","r"," ","(",";",";",")"," ","{">>

\* do {
StDo == <<"d","o"," ","{">>

\* try {
StTry == <<"t","r","y"," ","{">>

\* catch (e) {
StCatch == <<"c","a","t","c","h"," ","(","e",")"," ","{">>

\* struct S {
StStruct == <<"s","t","r","u","c","t"," ","S"," ","{">>

\* struct S
StStructNoBrace == <<"s","t","r","u","c","t"," ","S">>

\* void f(){ return; }
StInline == <<"v","o","i","d"," ","f","(",")","{"," ","r","e","t","u","r","n",";"," ","}">>

\* int y;
StMember == <<"i","n","t"," ","y",";">>

\* struct S { int x; void f(){ return; } };
StStructOneLine == <<"s","t","r","u","c","t"," ","S"," ","{"," ","i","n","t"," ","x",";"," ","v","o","i","d"," ","f","(",")","{"," ","r","e","t","u","r","n",";"," ","}"," ","}",";">>

\* doWork();
StDoWork == <<"d","o","W","o","r","k","(",")",";">>

\* #include <a>
StInclude == <<"#","i","n","c","l","u","d","e"," ","<","a",">">>

\* returnValue = 5;
StReturnValue == <<"r","e","t","u","r","n","V","a","l","u","e"," ","="," ","5",";">>

\* double x = 1;
StDouble == <<"d","o","u","b","l","e"," ","x"," ","="," ","1",";">>

\* using namespace std;
StUsing == <<"u","s","i","n","g"," ","n","a","m","e","s","p","a","c","e"," ","s","t","d",";">>

\* template <class T>
StTemplate == <<"t","e","m","p","l","a","t","e"," ","<","c","l","a","s","s"," ","T",">">>

\* if (f(x)) {
StIfCall == <<"i","f"," ","(","f","(","x",")",")"," ","{">>

\* if (a) b(c);
StIfThen == <<"i","f"," ","(","a",")"," ","b","(","c",")",";">>

\* while ( x ) {
StWhileSpaced == <<"w","h","i","l","e"," ","("," ","x"," ",")"," ","{">>

\* total = accumulate(first, second, third, x) & m;
StLongAmp == <<"t","o","t","a","l"," ","="," ","a","c","c","u","m","u","l","a","t","e","(","f","i","r","s","t",","," ","s","e","c","o","n","d",","," ","t","h","i","r","d",","," ","x",")"," ","&"," ","m",";">>

\* value = computeSomething(alpha, beta) + offset012;
StFifty == <<"v","a","l","u","e"," ","="," ","c","o","m","p","u","t","e","S","o","m","e","t","h","i","n","g","(","a","l","p","h","a",","," ","b","e","t","a",")"," ","+"," ","o","f","f","s","e","t","0","1","2",";">>

\* log["key"] = {1};
StBrackets == <<"l","o","g","[","\"","k","e","y","\"","]"," ","="," ","{","1","}",";">>

\* format(s);
StFormat == <<"f","o","r","m","a","t","(","s",")",";">>

\* ifstream f;
StIfstream == <<"i","f","s","t","r","e","a","m"," ","f",";">>

\* default_value = 3;
StDefaultValue == <<"d","e","f","a","u","l","t","_","v","a","l","u","e"," ","="," ","3",";">>

\* void f() {
StFunc == <<"v","o","i","d"," ","f","(",")"," ","{">>

\* if (c)
StIfBare == <<"i","f"," ","(","c",")">>

\* return x;
StReturn == <<"r","e","t","u","r","n"," ","x",";">>

\* } while (x);
StCloseWhile == <<"}"," ","w","h","i","l","e"," ","(","x",")",";">>

\* } catch (e) {
StCloseCatch == <<"}"," ","c","a","t","c","h"," ","(","e",")"," ","{">>

\* x = a & b;
StAmp == <<"x"," ","="," ","a"," ","&"," ","b",";">>

\* s = "q";
StQuote == <<"s"," ","="," ","\"","q","\"",";">>

\* v[0] = 1;
StIndex == <<"v","[","0","]"," ","="," ","1",";">>

\* result = computeSomething(alpha, beta) + offsetValue01;
StLong == <<"r","e","s","u","l","t"," ","="," ","c","o","m","p","u","t","e","S","o","m","e","t","h","i","n","g","(","a","l","p","h","a",","," ","b","e","t","a",")"," ","+"," ","o","f","f","s","e","t","V","a","l","u","e","0","1",";">>

\* if (x > 0) { a(); } else { b(); }
StIfElseOneLine == <<"i","f"," ","(","x"," ",">"," ","0",")"," ","{"," ","a","(",")",";"," ","}"," ","e","l","s","e"," ","{"," ","b","(",")",";"," ","}">>

\* switch (n) { case 1: a(); break; }
StSwitchOneLine == <<"s","w","i","t","c","h"," ","(","n",")"," ","{"," ","c","a","s","e"," ","1",":"," ","a","(",")",";"," ","b","r","e","a","k",";"," ","}">>

\* ------------------------------------------------------------------------
\* Source texts (the code argument of parseFlowchart)
\* ------------------------------------------------------------------------
\* one physical line, with a line comment
CodeIfElseOneLine ==
    <<" "," ","i","f"," ","(","x"," ",">"," ","0",")"," ","{"," ","a","(",")",
      ";"," ","}"," ","e","l","s","e"," ","{"," ","b","(",")",";"," ","}"," ",
      "/","/"," ","b","r","a","n","c","h","\n">>

\* the same construct, one unit per line, with a block comment
CodeIfElseLines ==
    <<"i","f"," ","(","x"," ",">"," ","0",")"," ","{","\n","\t","a","(",")",
      ";","\n","}","\n","/","*"," ","n","o","\n"," "," "," ","b","r","a","n",
      "c","h"," ","*","/","\n","e","l","s","e"," ","{","\n","\t","b","(",")",
      ";","\n","}","\n">>

\* one physical line
CodeSwitchOneLine ==
    <<"s","w","i","t","c","h"," ","(","n",")"," ","{"," ","c","a","s","e"," ",
      "1",":"," ","a","(",")",";"," ","b","r","e","a","k",";"," ","}">>

\* the same construct, one unit per line
CodeSwitchLines ==
    <<"s","w","i","t","c","h"," ","(","n",")"," ","{","\n"," "," ","c","a",
      "s","e"," ","1",":","\n"," "," "," "," ","a","(",")",";","\n"," "," ",
      " "," ","b","r","e","a","k",";","\n","}","\n","\n">>

CodeTexts == {CodeIfElseOneLine, CodeIfElseLines, CodeSwitchOneLine, CodeSwitchLines}

\* ------------------------------------------------------------------------
\* Input families
\* ------------------------------------------------------------------------
BoundedSeq(S, n) == UNION {[1..k -> S] : k \in 0..n}

GeneralStatements ==
    {StCall, StClose, StIf, StElse, StCatch, StSwitch, StCase1, StBreak, StStruct}

OrdinaryStatements == {StCall, StCallB, StAssign, StReturnValue, StDouble}

DeclStatements ==
    {StStruct, StStructNoBrace, StOpen, StInline, StMember, StCloseSemi, StDoWork,
     StUsing, StTemplate}

AllStatements ==
    {StCall, StCallB, StAssign, StClose, StCloseSemi, StOpen, StIf, StIfGt,
     StElse, StCloseElse, StSwitch, StCase1, StCase2, StDefault, StBreak,
     StWhile, StFor, StDo, StTry, StCatch, StStruct, StStructNoBrace,
     StInline, StMember, StStructOneLine, StDoWork, StInclude,
     StReturnValue, StDouble, StFunc, StIfBare, StReturn, StCloseWhile,
     StCloseCatch}

\* texts with quotes, brackets, markup characters, and more than 50 characters
LabelStatements ==
    {StAmp, StQuote, StIndex, StLong, StInclude, StIfGt, StCall, StIfCall, StIfThen,
     StWhileSpaced, StLongAmp, StFifty, StBrackets}

\* if (c) { a } else { b }, one unit per line
IfElseInputs ==
    {<<c, a, StClose, StElse, b, StClose>> :
        c \in {StIf, StIfGt}, a \in OrdinaryStatements, b \in OrdinaryStatements}

CaseLabels == {StCase1, StCase2}

CaseGroups ==
    {<<c, s, StBreak>> : c \in CaseLabels, s \in {StCall, StCallB}}

RECURSIVE Flatten(_)
Flatten(ss) == IF ss = <<>> THEN <<>> ELSE Head(ss) \o Flatten(Tail(ss))

\* switch (n) { k groups of case / statement / break }
SwitchInputs ==
    {<<StSwitch>> \o Flatten(gs) \o <<StClose>> : gs \in BoundedSeq(CaseGroups, MaxCases)}

\* a switch inside a case of a switch; a case label after each closing brace
NestedSwitchInputs ==
    {<<StSwitch, c1, StSwitch, c2, StClose, c3, StClose, c4>> :
        c1 \in CaseLabels, c2 \in CaseLabels, c3 \in CaseLabels \cup {StDefault},
        c4 \in CaseLabels}

\* a braced if / else or try / catch inside a loop body, followed by a statement
NestedBranchInputs ==
    {<<StWhile, opener[1], a, StClose, opener[2], b, StClose, c, StClose>> :
        opener \in {<<StIf, StElse>>, <<StTry, StCatch>>},
        a \in {StCall, StCallB}, b \in {StCall, StCallB}, c \in {StCall, StAssign}}

\* ordinary statements whose text begins with the letters of a keyword
KeywordPrefixStatements ==
    {StDouble, StFormat, StIfstream, StReturnValue, StDefaultValue, StDoWork}

Inputs ==
    BoundedSeq(GeneralStatements, MaxLines)
    \cup BoundedSeq(OrdinaryStatements, MaxLines)
    \cup BoundedSeq(DeclStatements, MaxDecl)
    \cup BoundedSeq(AllStatements, MaxShort)
    \cup IfElseInputs
    \cup SwitchInputs
    \cup {splitStatements(code) : code \in CodeTexts}
    \cup {<<s>> : s \in LabelStatements}
    \cup NestedSwitchInputs
    \cup NestedBranchInputs
    \cup BoundedSeq(KeywordPrefixStatements \cup {StCall}, MaxShort)

\* ------------------------------------------------------------------------
\* State of one call of parseFlowchart
\* ------------------------------------------------------------------------
VARIABLES lines, i, mermaid, nodeIdCounter, stack, switchStack,
          ignoreBlockLevel, pc,
          nodeOf,   \* history: currentId of each iteration, None when it made no node
          returned, \* history: <<lines, returned string>> of the calls made so far
          ext,      \* the state of the activated extension and of its webview panel
          scan      \* the locals of one generateDependencyGraph call

parserVars == <<lines, i, mermaid, nodeIdCounter, stack, switchStack,
                ignoreBlockLevel, pc, nodeOf, returned>>

vars == <<lines, i, mermaid, nodeIdCounter, stack, switchStack,
          ignoreBlockLevel, pc, nodeOf, returned, ext, scan>>

None == <<"None">>

\* "graph TD;" and the six classDef lines, a fixed text
Header ==
    << [kind |-> "header", id |-> Start, src |-> Start, shape |-> "graph TD",
        label |-> <<>>,
        class |-> "default decision process terminator switchNode catchNode"] >>

\* the locals after the first k statements of ls
RECURSIVE runLoop(_, _)
runLoop(ls, k) ==
    IF k = 0
    THEN [out |-> Header \o << EdgeDecl(Start, NodeId(0), "-->", <<>>) >>,
          counter |-> 0, stack |-> << Start >>, switchStack |-> <<>>,
          ignoreBlockLevel |-> 0]
    ELSE LET s == runLoop(ls, k - 1)
             r == loopBody(ls[k], s.counter, s.stack, s.switchStack,
                           s.ignoreBlockLevel)
         IN  [r EXCEPT !.out = s.out \o r.out]

\* the string returned by parseFlowchart(code)
parseFlowchart(code) ==
    LET ls == splitStatements(code) IN runLoop(ls, Len(ls)).out

\* ------------------------------------------------------------------------
\* The extension: activate, runRepoVizWorkflow, setupWebviewListener, and
\* WebviewManager.showGraph
\* ------------------------------------------------------------------------
\* the folders getProjectFolders offers in the quick pick
Folders == {"src", "lib"}

\* a();
CodeCall == <<"a","(",")",";">>

\* if (c) { / a(); / }
CodeIf == <<"i","f"," ","(","c",")"," ","{","\n","a","(",")",";","\n","}">>

\* the texts of the documents that can be open or be clicked in the repo graph
Documents == {CodeCall, CodeIf}

\* let cachedRepoGraph = ""
NoGraph == [kind |-> "none", folders |-> {}, body |-> <<>>]

\* result.mermaid of generateDependencyGraph(targetFolders)
RepoGraph(targetFolders) == [kind |-> "repo", folders |-> targetFolders, body |-> <<>>]

\* parser.parseFlowchart(doc.getText())
FileGraph(code) == [kind |-> "file", folders |-> {}, body |-> parseFlowchart(code)]

NoHtml == [graph |-> NoGraph, mode |-> "NONE"]

NoEvent == [type |-> "none", name |-> "", runs |-> 0]

\* an async call that waits for its promise
Awaiting(stage, targetFolders, doc) ==
    [stage |-> stage, targetFolders |-> targetFolders, doc |-> doc]

\* the state after activate(context)
Activated ==
    [cachedRepoGraph |-> NoGraph,
     cachedSelectedFolders |-> {},
     panel |-> FALSE,           \* webviewManager.panel is defined
     handlers |-> 0,            \* listeners registered on panel.webview
     html |-> NoHtml,           \* panel.webview.html: the graph and the buttons shown
     notice |-> "",             \* the last error message shown
     pending |-> <<>>,          \* async calls waiting at an await
     event |-> NoEvent,         \* history: the step taken last
     lastRepoGraph |-> NoGraph, \* history: the repo graph rendered last
     lastConfirmed |-> {}]      \* history: the folder selection confirmed last

NotScanning == [pc |-> "idle"]

\* WebviewManager.showGraph: reveal or create the panel, set its html
showGraph(e, graphDefinition, mode) ==
    [e EXCEPT !.panel = TRUE,
              !.html = [graph |-> graphDefinition, mode |-> mode]]

\* mutant: a listener is registered only on a panel that has none
setupWebviewListenerOnce(e) ==
    IF e.panel /\ e.handlers = 0 THEN [e EXCEPT !.handlers = 1] ELSE e

\* setupWebviewListener: panel.webview.onDidReceiveMessage(...)
setupWebviewListener(e) ==
    IF e.panel THEN [e EXCEPT !.handlers = @ + 1] ELSE e

\* runRepoVizWorkflow up to its first await: the folder scan and quick pick
\* when forcePick, else the graph generation with the cached selection
runRepoVizWorkflow(e, forcePick) ==
    IF forcePick
    THEN [e EXCEPT !.pending =
                      Append(@, Awaiting("picking", e.cachedSelectedFolders, <<>>))]
    ELSE [e EXCEPT !.pending =
                      Append(@, Awaiting("generating", e.cachedSelectedFolders, <<>>))]

\* case 'backToRepo'
backToRepo(e) ==
    IF e.cachedRepoGraph # NoGraph
    THEN showGraph(e, e.cachedRepoGraph, "REPO")
    ELSE runRepoVizWorkflow(e, TRUE)

\* mutant: Refresh asks for the folders again
refreshRepoPicks(e) == runRepoVizWorkflow(e, TRUE)

\* case 'refreshRepo'
refreshRepo(e) == runRepoVizWorkflow(e, FALSE)

\* case 'filterFolders'
filterFolders(e) == runRepoVizWorkflow(e, TRUE)

\* case 'openAndVisualize', up to await openTextDocument(filePath)
openAndVisualize(e, doc) ==
    [e EXCEPT !.pending = Append(@, Awaiting("opening", {}, doc))]

\* the listener body: switch (message.command)
onMessage(e, message) ==
    CASE message.command = "openAndVisualize" -> openAndVisualize(e, message.path)
      [] message.command = "backToRepo" -> backToRepo(e)
      [] message.command = "filterFolders" -> filterFolders(e)
      [] message.command = "refreshRepo" -> refreshRepo(e)
      [] OTHER -> e

\* every registered listener receives the message
RECURSIVE deliver(_, _, _)
deliver(e, message, n) ==
    IF n = 0 THEN e ELSE deliver(onMessage(e, message), message, n - 1)

\* the messages the buttons and nodes of the shown page can post
Postable(html) ==
    IF html.mode = "REPO"
    THEN {[command |-> "filterFolders", path |-> <<>>],
          [command |-> "refreshRepo", path |-> <<>>]}
         \cup {[command |-> "openAndVisualize", path |-> d] : d \in Documents}
    ELSE IF html.mode = "FILE"
    THEN {[command |-> "backToRepo", path |-> <<>>]}
    ELSE {}

RemoveAt(seq, k) == SubSeq(seq, 1, k - 1) \o SubSeq(seq, k + 1, Len(seq))

\* the locals of a call that has not been made
NoCall ==
    [mermaid |-> <<>>, nodeIdCounter |-> 0, stack |-> <<>>, switchStack |-> <<>>,
     ignoreBlockLevel |-> 0]

\* mutant: the node-id counter lives on from the previous call
newCallKeepsCounter(prev) ==
    [mermaid |-> Header \o << EdgeDecl(Start, NodeId(0), "-->", <<>>) >>,
     nodeIdCounter |-> prev.nodeIdCounter,
     stack |-> << Start >>, switchStack |-> <<>>, ignoreBlockLevel |-> 0]

\* the locals at the start of the loop; prev are the locals the previous call
\* on this CppParser left behind, of which nothing is read
newCall(prev) ==
    [mermaid |-> Header \o << EdgeDecl(Start, NodeId(0), "-->", <<>>) >>,
     nodeIdCounter |-> 0,
     stack |-> << Start >>, switchStack |-> <<>>, ignoreBlockLevel |-> 0]

Locals ==
    [mermaid |-> mermaid, nodeIdCounter |-> nodeIdCounter, stack |-> stack,
     switchStack |-> switchStack, ignoreBlockLevel |-> ignoreBlockLevel]

Init ==
    /\ lines \in Inputs
    /\ i = 0
    /\ mermaid = newCall(NoCall).mermaid
    /\ nodeIdCounter = newCall(NoCall).nodeIdCounter
    /\ stack = newCall(NoCall).stack
    /\ switchStack = newCall(NoCall).switchStack
    /\ ignoreBlockLevel = newCall(NoCall).ignoreBlockLevel
    /\ pc = "loop"
    /\ nodeOf = <<>>
    /\ returned = <<>>
    /\ ext = Activated
    /\ scan = NotScanning

\* one iteration of the for loop
\* mutant: the loop steps over a statement
nextIndexSkips(idx) == idx + 2

\* i++
nextIndex(idx) == idx + 1

ProcessLine ==
    /\ pc = "loop"
    /\ i < Len(lines)
    /\ LET r == loopBody(lines[i + 1], nodeIdCounter, stack, switchStack,
                         ignoreBlockLevel)
       IN  /\ mermaid' = mermaid \o r.out
           /\ nodeIdCounter' = r.counter
           /\ stack' = r.stack
           /\ switchStack' = r.switchStack
           /\ ignoreBlockLevel' = r.ignoreBlockLevel
           /\ nodeOf' = Append(nodeOf, IF r.counter > nodeIdCounter
                                       THEN NodeId(nodeIdCounter) ELSE None)
    /\ i' = nextIndex(i)
    /\ UNCHANGED <<lines, pc, returned, ext, scan>>

\* return mermaid
Return ==
    /\ pc = "loop"
    /\ i >= Len(lines)
    /\ pc' = "done"
    /\ returned' = Append(returned, <<lines, mermaid>>)
    /\ UNCHANGED <<lines, i, mermaid, nodeIdCounter, stack, switchStack,
                   ignoreBlockLevel, nodeOf, ext, scan>>

Next == ProcessLine \/ Return

Spec == Init /\ [][Next]_vars

\* the loop runs to completion once parseFlowchart is called: one thread, no
\* awaits, so a step that is possible is eventually taken.  The body is total,
\* every step of Next is a loopStep and conversely, so fairness is stated on
\* the loop position
TermInputs == BoundedSeq(GeneralStatements, MaxTermLines)

InitTerm ==
    /\ Init
    /\ lines \in TermInputs

\* what a step of Next does to the loop position: i < lines.length; i++
loopStep ==
    /\ pc = "loop"
    /\ IF i < Len(lines)
       THEN i' = nextIndex(i) /\ pc' = pc
       ELSE i' = i /\ pc' = "done"

SpecTerm == InitTerm /\ [][Next]_vars /\ WF_<<i, pc>>(loopStep)

\* ------------------------------------------------------------------------
\* The commands, the webview messages and the completions of awaited calls
\* ------------------------------------------------------------------------
InitExt ==
    /\ Init
    /\ lines = <<>>

\* command cpp-viz-tool.visualizeFile; editor is the active editor's text or None
VisualizeFile ==
    /\ ext.handlers < MaxHandlers
    /\ \E editor \in Documents \cup {None} :
          ext' = IF editor = None
                 THEN [ext EXCEPT !.notice = "Please open a C++ file!",
                                  !.event = [type |-> "command", name |-> "visualizeFile",
                                             runs |-> 1]]
                 ELSE [setupWebviewListener(showGraph(ext, FileGraph(editor), "FILE"))
                          EXCEPT !.event = [type |-> "command", name |-> "visualizeFile",
                                            runs |-> 1]]
    /\ UNCHANGED <<parserVars, scan>>

\* command cpp-viz-tool.visualizeRepo
VisualizeRepo ==
    /\ Len(ext.pending) < MaxPending
    /\ ext' = [runRepoVizWorkflow(ext, TRUE)
                  EXCEPT !.event = [type |-> "command", name |-> "visualizeRepo",
                                    runs |-> 1]]
    /\ UNCHANGED <<parserVars, scan>>

\* the webview posts a message; each registered listener runs to its first await
ReceiveMessage ==
    /\ ext.panel
    /\ Len(ext.pending) + ext.handlers <= MaxPending
    /\ \E message \in Postable(ext.html) :
          ext' = [deliver(ext, message, ext.handlers)
                     EXCEPT !.event = [type |-> "message", name |-> message.command,
                                       runs |-> ext.handlers]]
    /\ UNCHANGED <<parserVars, scan>>

\* getProjectFolders and showQuickPick complete: no folders, Esc, or a selection
ResolvePick ==
    /\ \E k \in 1..Len(ext.pending) :
          /\ ext.pending[k].stage = "picking"
          /\ \/ ext' = [ext EXCEPT !.pending = RemoveAt(@, k),
                                   !.notice = "No source folders found.",
                                   !.event = [type |-> "pick", name |-> "nofolders",
                                              runs |-> 1]]
             \/ ext' = [ext EXCEPT !.pending = RemoveAt(@, k),
                                   !.event = [type |-> "pick", name |-> "cancel",
                                              runs |-> 1]]
             \/ \E selectedItems \in SUBSET Folders :
                   ext' = [ext EXCEPT
                             !.pending = Append(RemoveAt(@, k),
                                                Awaiting("generating", selectedItems, <<>>)),
                             !.cachedSelectedFolders = selectedItems,
                             !.lastConfirmed = selectedItems,
                             !.event = [type |-> "pick", name |-> "select", runs |-> 1]]
    /\ UNCHANGED <<parserVars, scan>>

\* generateDependencyGraph completes: render and listen, or show the error
ResolveGenerate ==
    /\ ext.handlers < MaxHandlers
    /\ \E k \in 1..Len(ext.pending) :
          /\ ext.pending[k].stage = "generating"
          /\ LET rest == [ext EXCEPT !.pending = RemoveAt(@, k)]
                 result == RepoGraph(ext.pending[k].targetFolders)
             IN  \/ ext' = [setupWebviewListener(showGraph(rest, result, "REPO"))
                               EXCEPT !.lastRepoGraph = result,
                                      !.event = [type |-> "generate", name |-> "ok",
                                                 runs |-> 1]]
                 \/ ext' = [rest EXCEPT !.notice = "Error",
                                        !.event = [type |-> "generate", name |-> "error",
                                                   runs |-> 1]]
    /\ UNCHANGED <<parserVars, scan>>

\* openTextDocument / showTextDocument complete: parse and show, or show the error
ResolveOpen ==
    /\ \E k \in 1..Len(ext.pending) :
          /\ ext.pending[k].stage = "opening"
          /\ LET rest == [ext EXCEPT !.pending = RemoveAt(@, k)]
             IN  \/ ext' = [showGraph(rest, FileGraph(ext.pending[k].doc), "FILE")
                               EXCEPT !.event = [type |-> "open", name |-> "ok",
                                                 runs |-> 1]]
                 \/ ext' = [rest EXCEPT !.notice = "Could not open file",
                                        !.event = [type |-> "open", name |-> "error",
                                                   runs |-> 1]]
    /\ UNCHANGED <<parserVars, scan>>

\* the user closes the panel: onDidDispose
ClosePanel ==
    /\ ext.panel
    /\ ext' = [ext EXCEPT !.panel = FALSE, !.handlers = 0, !.html = NoHtml,
                          !.event = [type |-> "dispose", name |-> "", runs |-> 1]]
    /\ UNCHANGED <<parserVars, scan>>

NextExt ==
    \/ VisualizeFile
    \/ VisualizeRepo
    \/ ReceiveMessage
    \/ ResolvePick
    \/ ResolveGenerate
    \/ ResolveOpen
    \/ ClosePanel

SpecExt == InitExt /\ [][NextExt]_vars

\* ------------------------------------------------------------------------
\* RepoScanner.generateDependencyGraph
\* ------------------------------------------------------------------------
\* the workspace folder
WorkspaceRoot == <<"/","w">>

\* the files findFiles returns, in its order
PathOutM == <<"/","w","/","o","u","t","/","m",".","c">>

PathSrcA == <<"/","w","/","s","r","c","/","a",".","h">>

PathLibA == <<"/","w","/","l","i","b","/","a",".","h">>

PathSrcM == <<"/","w","/","s","r","c","/","m",".","c">>

WorkspaceFiles == << PathOutM, PathSrcA, PathLibA, PathSrcM >>

\* names that #include directives of the files can carry
IncludeNames == {<<"a",".","h">>, <<"m",".","c">>}

DirSrc == <<"s","r","c">>

DirLib == <<"l","i","b">>

\* the entries of IGNORE_FOLDERS that occur in the workspace
IgnoreFolders == {<<"o","u","t">>, <<"b","u","i","l","d">>}

\* allowedFolders === null
Null == << <<"null">> >>

\* the values of the allowedFolders parameter
AllowedFolderLists == {Null, <<>>, <<DirSrc>>, <<DirLib>>, <<DirSrc, DirLib>>}

\* the first names of the #include directives of each file (match[1] of the
\* include regex), for the files whose text varies
ScanContents ==
    {[p \in {PathOutM, PathSrcA, PathLibA, PathSrcM} |->
         IF p = PathOutM THEN << <<"a",".","h">> >>
         ELSE IF p = PathSrcA THEN ca ELSE IF p = PathLibA THEN cb ELSE cm] :
        ca \in BoundedSeq(IncludeNames, MaxIncludes),
        cb \in BoundedSeq(IncludeNames, MaxIncludes),
        cm \in BoundedSeq(IncludeNames, MaxIncludes)}

\* text.includes(pattern) with a string pattern
includesText(text, pat) == indexOf(text, pat, 1) # 0

\* path.dirname
dirname(path) ==
    LET slashes == {k \in 1..Len(path) : path[k] = "/"}
    IN  IF slashes = {} THEN <<".">>
        ELSE SubSeq(path, 1, (CHOOSE k \in slashes : \A m \in slashes : m <= k) - 1)

\* vscode.workspace.asRelativePath
asRelativePath(path) ==
    IF startsWith(path, WorkspaceRoot \o <<"/">>)
    THEN SubSeq(path, Len(WorkspaceRoot) + 2, Len(path))
    ELSE path

\* relativeDir === '.' ? 'Root' : relativeDir
checkDirOf(path) ==
    LET relativeDir == asRelativePath(dirname(path))
    IN  IF relativeDir = <<".">> THEN <<"R","o","o","t">> ELSE relativeDir

isIgnored(path) ==
    \E folder \in IgnoreFolders : includesText(path, <<"/">> \o folder \o <<"/">>)

isFilterMode(allowedFolders) == allowedFolders # Null /\ Len(allowedFolders) > 0

isSelected(path, allowedFolders) ==
    \E a \in 1..Len(allowedFolders) :
        \/ checkDirOf(path) = allowedFolders[a]
        \/ startsWith(checkDirOf(path), allowedFolders[a] \o <<"/">>)

\* `F${idCounter++}`
FileId(k) == <<"F", k>>

\* step 2: the valid files and their ids, over files[1..n]
RECURSIVE filterFiles(_, _, _)
filterFiles(files, n, allowedFolders) ==
    IF n = 0 THEN [pathToId |-> <<>>, validFiles |-> <<>>, idCounter |-> 0]
    ELSE LET prev == filterFiles(files, n - 1, allowedFolders)
             file == files[n]
         IN  IF isIgnored(file) THEN prev
             ELSE IF isFilterMode(allowedFolders) /\ ~isSelected(file, allowedFolders)
             THEN prev
             ELSE [pathToId |-> Append(prev.pathToId, <<file, FileId(prev.idCounter)>>),
                   validFiles |-> Append(prev.validFiles, file),
                   idCounter |-> prev.idCounter + 1]

\* pathToId.get(path)
idOf(pathToId, path) ==
    LET k == CHOOSE x \in 1..Len(pathToId) : pathToId[x][1] = path
    IN  pathToId[k][2]

\* Array.from(pathToId.entries()).find(([p, id]) => p.endsWith(includedName));
\* 0 when there is none
findTarget(pathToId, includedName) ==
    LET hits == {k \in 1..Len(pathToId) : endsWith(pathToId[k][1], includedName)}
    IN  IF hits = {} THEN 0 ELSE CHOOSE k \in hits : \A m \in hits : k <= m

\* nodeDegrees.get(id) || 0
degree(nodeDegrees, id) == IF id \in DOMAIN nodeDegrees THEN nodeDegrees[id] ELSE 0

\* nodeDegrees.set(id, n)
setDegree(nodeDegrees, id, n) ==
    IF id \in DOMAIN nodeDegrees THEN [nodeDegrees EXCEPT ![id] = n]
    ELSE nodeDegrees @@ (id :> n)

\* if (!adjacency[id]) adjacency[id] = []
ensureList(adjacency, id) ==
    IF id \in DOMAIN adjacency THEN adjacency ELSE adjacency @@ (id :> <<>>)

\* if (!adjacency[a].includes(b)) adjacency[a].push(b)
pushUnique(adjacency, a, b) ==
    IF \E k \in 1..Len(adjacency[a]) : adjacency[a][k] = b THEN adjacency
    ELSE [adjacency EXCEPT ![a] = Append(@, b)]

\* mutant: only the including file records the link
linkOneWay(adjacency, sourceId, targetId) ==
    pushUnique(adjacency, sourceId, targetId)

\* the adjacency update of one include: both directions
link(adjacency, sourceId, targetId) ==
    pushUnique(ensureList(pushUnique(adjacency, sourceId, targetId), targetId),
               targetId, sourceId)

\* the body of the while loop over the include matches, for one match
processInclude(st, sourceId, includedName) ==
    LET k == findTarget(st.pathToId, includedName)
    IN  IF k = 0 THEN st
        ELSE LET targetId == st.pathToId[k][2]
             IN  IF sourceId = targetId THEN st
                 ELSE LET d1 == setDegree(st.nodeDegrees, sourceId,
                                          degree(st.nodeDegrees, sourceId) + 1)
                          d2 == setDegree(d1, targetId, degree(d1, targetId) + 1)
                      IN  [st EXCEPT
                              !.edges = Append(@, [from |-> sourceId, to |-> targetId]),
                              !.nodeDegrees = d2,
                              !.adjacency = link(@, sourceId, targetId)]

RECURSIVE processIncludes(_, _, _, _)
processIncludes(st, sourceId, names, n) ==
    IF n = 0 THEN st
    ELSE processInclude(processIncludes(st, sourceId, names, n - 1), sourceId, names[n])

\* the ids of the files that are drawn
shown(st, id) == isFilterMode(st.allowedFolders) \/ degree(st.nodeDegrees, id) > 0

\* step 4: the folder groups (in order of first appearance), the edges and the
\* click lines of the graph text
RECURSIVE folderGroups(_, _)
folderGroups(st, n) ==
    IF n = 0 THEN <<>>
    ELSE LET prev == folderGroups(st, n - 1)
             file == st.validFiles[n]
             fileId == idOf(st.pathToId, file)
             relativeDir == asRelativePath(dirname(file))
             at == {g \in 1..Len(prev) : prev[g].folder = relativeDir}
         IN  IF ~shown(st, fileId) THEN prev
             ELSE IF at = {}
             THEN Append(prev, [folder |-> relativeDir, fileIds |-> <<fileId>>])
             ELSE LET g == CHOOSE x \in at : TRUE
                  IN  [prev EXCEPT ![g].fileIds = Append(@, fileId)]

renderGraph(st) ==
    [groups |-> folderGroups(st, Len(st.validFiles)),
     edges |-> SelectSeq(st.edges, LAMBDA e : shown(st, e.from) /\ shown(st, e.to)),
     clicks |-> SelectSeq([k \in 1..Len(st.pathToId) |-> st.pathToId[k][2]],
                          LAMBDA id : shown(st, id))]

\* generateDependencyGraph(allowedFolders) is called; findFiles completes and
\* the valid files get their ids (steps 1 and 2)
FilterFiles ==
    /\ scan.pc = "idle"
    /\ \E allowedFolders \in AllowedFolderLists, contents \in ScanContents :
          LET f == filterFiles(WorkspaceFiles, Len(WorkspaceFiles), allowedFolders)
          IN  scan' = [pc |-> "edges",
                       allowedFolders |-> allowedFolders,
                       contents |-> contents,
                       pathToId |-> f.pathToId,
                       validFiles |-> f.validFiles,
                       idCounter |-> f.idCounter,
                       edges |-> <<>>,
                       nodeDegrees |-> <<>>,
                       adjacency |-> <<>>,
                       done |-> 0,
                       mermaid |-> <<>>]
    /\ UNCHANGED <<parserVars, ext>>

\* one iteration of the loop over validFiles (step 3); openTextDocument gives
\* the text or throws, and the catch block ignores the file
ScanFile ==
    /\ scan.pc = "edges"
    /\ scan.done < Len(scan.validFiles)
    /\ LET file == scan.validFiles[scan.done + 1]
           sourceId == idOf(scan.pathToId, file)
           st == [scan EXCEPT !.nodeDegrees = IF sourceId \in DOMAIN @ THEN @
                                              ELSE @ @@ (sourceId :> 0),
                              !.adjacency = ensureList(@, sourceId),
                              !.done = @ + 1]
       IN  \/ scan' = processIncludes(st, sourceId, scan.contents[file],
                                      Len(scan.contents[file]))
           \/ scan' = st
    /\ UNCHANGED <<parserVars, ext>>

\* step 4 and return { mermaid, adjacency }
RenderGraph ==
    /\ scan.pc = "edges"
    /\ scan.done >= Len(scan.validFiles)
    /\ scan' = [scan EXCEPT !.pc = "done", !.mermaid = renderGraph(scan)]
    /\ UNCHANGED <<parserVars, ext>>

NextScan == FilterFiles \/ ScanFile \/ RenderGraph

SpecScan == InitExt /\ [][NextScan]_vars

\* ------------------------------------------------------------------------
\* Several calls of parseFlowchart on the one CppParser of the extension
\* ------------------------------------------------------------------------
CallStatements == {StCall, StIf, StSwitch, StStruct}

CallInputs == BoundedSeq(CallStatements, MaxCallLines)

InitCalls ==
    /\ Init
    /\ lines \in CallInputs

\* parser.parseFlowchart(text) once more, after the previous call returned
Call ==
    /\ pc = "done"
    /\ Len(returned) < MaxCalls
    /\ lines' \in CallInputs
    /\ i' = 0
    /\ mermaid' = newCall(Locals).mermaid
    /\ nodeIdCounter' = newCall(Locals).nodeIdCounter
    /\ stack' = newCall(Locals).stack
    /\ switchStack' = newCall(Locals).switchStack
    /\ ignoreBlockLevel' = newCall(Locals).ignoreBlockLevel
    /\ pc' = "loop"
    /\ nodeOf' = <<>>
    /\ UNCHANGED <<returned, ext, scan>>

NextCalls == ProcessLine \/ Return \/ Call

SpecCalls == InitCalls /\ [][NextCalls]_vars

\* ------------------------------------------------------------------------
\* Views of the output
\* ------------------------------------------------------------------------
NodeDecls == {k \in 1..Len(mermaid) : mermaid[k].kind = "node"}

EdgeDecls == {k \in 1..Len(mermaid) : mermaid[k].kind = "edge"}

DeclaredIds == {mermaid[k].id : k \in NodeDecls}

TypeOK ==
    /\ i \in 0..Len(lines)
    /\ nodeIdCounter \in 0..i
    /\ ignoreBlockLevel \in Nat
    /\ pc \in {"loop", "done"}

\* ids reachable from the ids of S along the emitted edges
RECURSIVE ReachableFrom(_)
ReachableFrom(S) ==
    LET T == S \cup {mermaid[e].id : e \in {x \in EdgeDecls : mermaid[x].src \in S}}
    IN  IF T = S THEN S ELSE ReachableFrom(T)

\* ------------------------------------------------------------------------
\* C1: in every state reached by parseFlowchart the ScopeStack holds at least
\* one element, also after more closing than opening braces and after
\* else / catch at depth 1.
\* ------------------------------------------------------------------------
C1_StackNeverEmpty == Len(stack) >= 1

\* two closing braces and an else, all arriving at depth 1
C1_Witness ==
    /\ i = 3
    /\ lines[1] = StClose /\ lines[2] = StClose /\ lines[3] = StElse
    /\ stack = << Start, NodeId(0) >>

\* ------------------------------------------------------------------------
\* C2: every edge of the returned output, the synthetic root edge included,
\* has as source and target only Start or the id of a node declared in the
\* same output.
\* ------------------------------------------------------------------------
C2_EdgesReferenceDeclaredNodes ==
    pc = "done" =>
        \A e \in EdgeDecls :
            /\ mermaid[e].src \in DeclaredIds \cup {Start}
            /\ mermaid[e].id \in DeclaredIds \cup {Start}

\* ------------------------------------------------------------------------
\* C3: every created node is reachable from Start along the emitted edges:
\* its declaration is followed by an edge to it from Start or from a node
\* created earlier.
\* ------------------------------------------------------------------------
C3_RootReachability ==
    /\ DeclaredIds \subseteq ReachableFrom({Start})
    /\ \A n \in NodeDecls :
          \E e \in EdgeDecls :
              /\ e > n
              /\ mermaid[e].id = mermaid[n].id
              /\ \/ mermaid[e].src = Start
                 \/ \E m \in NodeDecls : m < n /\ mermaid[m].id = mermaid[e].src

\* an else at depth 1 after a first statement, then a case outside any switch
C3_Witness ==
    /\ i = 3
    /\ lines[1] = StCall /\ lines[2] = StElse /\ lines[3] = StCase1
    /\ nodeIdCounter = 3

\* ------------------------------------------------------------------------
\* Lexical structure of the input, read from the text of the statements
\* ------------------------------------------------------------------------
IdentChars ==
    {"a","b","c","d","e","f","g","h","i","j","k","l","m","n","o","p","q","r",
     "s","t","u","v","w","x","y","z","A","B","C","D","E","F","G","H","I","J",
     "K","L","M","N","O","P","Q","R","S","T","U","V","W","X","Y","Z","0","1",
     "2","3","4","5","6","7","8","9","_"}

\* the identifier or keyword a statement begins with
FirstWord(text) ==
    LET stops == {k \in 1..Len(text) : text[k] \notin IdentChars}
    IN  IF stops = {} THEN text
        ELSE SubSeq(text, 1, (CHOOSE k \in stops : \A m \in stops : k <= m) - 1)

Count(text, ch) == Cardinality({k \in 1..Len(text) : text[k] = ch})

AtLeastZero(n) == IF n > 0 THEN n ELSE 0

\* after the first k statements: the number of braces open since (and including)
\* the opening brace of a struct/class/enum/union/namespace declaration, and
\* whether such a declaration still waits for its opening brace
RECURSIVE Lex(_)
Lex(k) ==
    IF k = 0 THEN [depth |-> 0, pending |-> FALSE]
    ELSE LET p == Lex(k - 1)
             t == lines[k]
             delta == Count(t, "{") - Count(t, "}")
         IN  IF p.depth > 0
             THEN [depth |-> AtLeastZero(p.depth + delta), pending |-> FALSE]
             ELSE IF p.pending /\ startsWith(t, <<"{">>)
             THEN [depth |-> AtLeastZero(delta), pending |-> FALSE]
             ELSE IF FirstWord(t) \in DeclKeywords
             THEN IF includes(t, "{")
                  THEN [depth |-> AtLeastZero(delta), pending |-> FALSE]
                  ELSE [depth |-> 0, pending |-> ~endsWith(t, <<";">>)]
             ELSE [depth |-> 0, pending |-> FALSE]

\* statement k lies inside the body of a declaration (it neither opens the
\* body nor holds the brace that closes it)
InsideDecl(k) == k >= 1 /\ Lex(k - 1).depth > 0 /\ Lex(k).depth > 0

\* a statement that is neither a declaration header, a preprocessor line,
\* a using / template line nor made of braces and punctuation only
Executable(text) ==
    /\ FirstWord(text) \notin DeclKeywords \cup {<<"u","s","i","n","g">>, KwTemplate}
    /\ text[1] # "#"
    /\ \E k \in 1..Len(text) : text[k] \in IdentChars

\* ------------------------------------------------------------------------
\* C4: a statement lexically inside the body of a struct/class/enum/union/
\* namespace declaration produces no node and no edge, whether the opening
\* brace is on the declaration line or the next one, and also after a line
\* of the body that both opens and closes a brace.
\* ------------------------------------------------------------------------
C4_IgnoreBlockExclusion ==
    [][(pc = "loop" /\ i < Len(lines) /\ InsideDecl(i + 1)) => mermaid' = mermaid]_vars

\* ------------------------------------------------------------------------
\* C5: IgnoreDepth is back to 0 once the brace matching the declaration's
\* opening brace has been read; `struct S { int x; void f(){ return; } };`
\* followed by `doWork();` yields exactly one node, the one of doWork().
\* ------------------------------------------------------------------------
C5_IgnoreDepthReturnsToZero ==
    /\ (i >= 1 /\ Lex(i - 1) = [depth |-> 0, pending |-> FALSE]
              /\ Executable(lines[i])) => nodeOf[i] # None
    /\ (pc = "done" /\ lines = << StStructOneLine, StDoWork >>) =>
          /\ nodeOf = << None, NodeId(0) >>
          /\ Cardinality(NodeDecls) = 1
          /\ \A n \in NodeDecls : mermaid[n].label = cleanLabel(StDoWork)

\* keywords of the control constructs and jumps of C/C++
ControlKeywords ==
    {KwIf, KwElse, KwSwitch, KwCase, KwDefault, KwWhile, KwFor, KwDo, KwTry,
     KwCatch} \cup JumpKeywords

\* an ordinary statement: executable, brace-free, not a control construct
IsOrdinary(text) ==
    /\ Executable(text)
    /\ ~includes(text, "{") /\ ~includes(text, "}")
    /\ FirstWord(text) \notin ControlKeywords

\* the (source, target) pairs of the emitted edges
EdgePairs == {<<mermaid[e].src, mermaid[e].id>> : e \in EdgeDecls}

\* the declaration of node id
DeclOf(id) == mermaid[CHOOSE n \in NodeDecls : mermaid[n].id = id]

\* ------------------------------------------------------------------------
\* C6: n ordinary statements at top level give exactly the nodes
\* Node0..Node(n-1), chained Start -> Node0 -> ... -> Node(n-1), with the
\* ScopeStack depth staying 1.
\* ------------------------------------------------------------------------
C6_SequentialChain ==
    (\A k \in 1..i : IsOrdinary(lines[k])) =>
        /\ nodeOf = [k \in 1..i |-> NodeId(k - 1)]
        /\ DeclaredIds = {NodeId(k) : k \in 0..(i - 1)}
        /\ Cardinality(NodeDecls) = i
        /\ EdgePairs = {<<Start, NodeId(0)>>}
                       \cup {<<NodeId(k - 1), NodeId(k)>> : k \in 1..(i - 1)}
        /\ Len(stack) = 1

\* ------------------------------------------------------------------------
\* C7: for `if (c) {`, `a();`, `}`, `else {`, `b();`, `}` the output has a
\* decision node for the if with an edge to the node of a(), a separate else
\* node with an edge to the node of b(), the else node's inbound edge comes
\* from the if's parent, and no path leads from the node of a() to the node
\* of b().
\* ------------------------------------------------------------------------
C7_BranchFanOut ==
    (pc = "done" /\ lines \in IfElseInputs) =>
        LET ifN == nodeOf[1]
            aN == nodeOf[2]
            elseN == nodeOf[4]
            bN == nodeOf[5]
        IN  /\ None \notin {ifN, aN, elseN, bN}
            /\ Cardinality({ifN, aN, elseN, bN}) = 4
            /\ DeclOf(ifN).class = "decision" /\ DeclOf(ifN).shape = "{}"
            /\ <<ifN, aN>> \in EdgePairs
            /\ DeclOf(elseN).label = LblElse
            /\ <<elseN, bN>> \in EdgePairs
            /\ \A e \in EdgeDecls :
                  mermaid[e].id = elseN => <<mermaid[e].src, ifN>> \in EdgePairs
            /\ \E e \in EdgeDecls : mermaid[e].id = elseN
            /\ bN \notin ReachableFrom({aN})

C7_Witness ==
    /\ pc = "done"
    /\ lines = << StIfGt, StCall, StClose, StElse, StCallB, StClose >>
    /\ nodeIdCounter = 4

\* `case v:` as the tag `Case v`
CaseTag(text) == <<"C">> \o SubSeq(text, 2, Len(text) - 1)

\* ------------------------------------------------------------------------
\* C8: for a switch of k groups `case v:`, statement, `break;` the output
\* has one switch header node, k case nodes each with exactly one inbound
\* edge, from the header and tagged `Case v`, and per group a terminator
\* node for break that follows the node of the group's statement.
\* ------------------------------------------------------------------------
C8_SwitchCaseTagging ==
    (pc = "done" /\ lines \in SwitchInputs) =>
        LET header == nodeOf[1]
            groups == (Len(lines) - 2) \div 3
        IN  /\ {mermaid[n].id : n \in {m \in NodeDecls : mermaid[m].class = "switchNode"}}
                  = {header}
            /\ \A g \in 1..groups :
                  LET c == 3 * g - 1
                      inbound == {e \in EdgeDecls : mermaid[e].id = nodeOf[c]}
                  IN  /\ None \notin {nodeOf[c], nodeOf[c + 1], nodeOf[c + 2]}
                      /\ Cardinality(inbound) = 1
                      /\ \A e \in inbound :
                            /\ mermaid[e].src = header
                            /\ mermaid[e].label = CaseTag(lines[c])
                      /\ DeclOf(nodeOf[c + 2]).class = "terminator"
                      /\ <<nodeOf[c + 1], nodeOf[c + 2]>> \in EdgePairs

\* ------------------------------------------------------------------------
\* C9: every node id held in switchStack is present in stack.
\* ------------------------------------------------------------------------
C9_SwitchContextInScopeStack ==
    \A k \in 1..Len(switchStack) :
        \E j \in 1..Len(stack) : stack[j] = switchStack[k].id

\* at most one brace in the statement
Plain(text) == Count(text, "{") + Count(text, "}") <= 1

\* the indexes of the statements whose opening brace is still open after k
\* statements
RECURSIVE OpenBlocks(_)
OpenBlocks(k) ==
    IF k = 0 THEN <<>>
    ELSE LET prev == OpenBlocks(k - 1)
         IN  IF includes(lines[k], "{") THEN Append(prev, k)
             ELSE IF includes(lines[k], "}") /\ prev # <<>> THEN Pop(prev)
             ELSE prev

IsOpenAfter(j, k) == \E x \in 1..Len(OpenBlocks(k)) : OpenBlocks(k)[x] = j

SwitchIds == {switchStack[k].id : k \in 1..Len(switchStack)}

\* ------------------------------------------------------------------------
\* C10: a SwitchContext entry is popped exactly when the closing brace of
\* its switch is processed: while the switch is open its header stays in
\* switchStack, and after the brace that closes a switch body with at
\* least one case label the header is no longer in switchStack.
\* ------------------------------------------------------------------------
C10_SwitchPoppedAtItsBrace ==
    (\A k \in 1..i : Plain(lines[k]) /\ FirstWord(lines[k]) \notin DeclKeywords) =>
        \A j \in 1..i :
            (FirstWord(lines[j]) = KwSwitch /\ includes(lines[j], "{")) =>
                IF IsOpenAfter(j, i)
                THEN nodeOf[j] \in SwitchIds
                ELSE (\E m \in (j + 1)..i :
                         /\ IsOpenAfter(j, m)
                         /\ FirstWord(lines[m]) \in {KwCase, KwDefault})
                     => nodeOf[j] \notin SwitchIds

\* the number of braces open after the first k statements
RECURSIVE BraceDepth(_)
BraceDepth(k) ==
    IF k = 0 THEN 0
    ELSE BraceDepth(k - 1) + Count(lines[k], "{") - Count(lines[k], "}")

\* every closing brace of the input closes an earlier opening brace, and all
\* braces are closed at the end
Balanced ==
    /\ \A k \in 0..Len(lines) : BraceDepth(k) >= 0
    /\ BraceDepth(Len(lines)) = 0

\* no statement of the input merely begins with the letters of a keyword
KeywordsAreWords ==
    \A k \in 1..Len(lines) :
        (\E kw \in ControlKeywords : startsWith(lines[k], kw))
            => FirstWord(lines[k]) \in ControlKeywords

\* ------------------------------------------------------------------------
\* C11: at every point of a brace-balanced input, ScopeStack depth minus 1
\* is the number of open braces that do not belong to an ignored
\* struct/class/enum/union/namespace declaration (stated for inputs in
\* which a statement begins with keyword letters only if it is that
\* construct).
\* ------------------------------------------------------------------------
C11_DepthIsBraceNesting ==
    (Balanced /\ KeywordsAreWords) => Len(stack) - 1 = BraceDepth(i) - Lex(i).depth

\* pairs of source texts: a construct on one physical line, and the same
\* construct one unit per line
SameConstruct ==
    { <<CodeIfElseOneLine, CodeIfElseLines>>,
      <<CodeSwitchOneLine, CodeSwitchLines>> }

\* ------------------------------------------------------------------------
\* C12: a construct written on one physical line yields the same nodes and
\* edges as the same construct written one unit per line.
\* ------------------------------------------------------------------------
C12_OneLineEqualsUnitPerLine ==
    \A pair \in SameConstruct :
        (pc = "done" /\ lines = splitStatements(pair[1]))
            => mermaid = parseFlowchart(pair[2])

\* ------------------------------------------------------------------------
\* C13: cleanLabel is idempotent: for every statement whose label was
\* computed, cleaning the cleaned text gives the cleaned text again.
\* ------------------------------------------------------------------------
C13_CleanLabelIdempotent ==
    \A k \in 1..i :
        nodeOf[k] # None =>
            cleanLabel(cleanLabel(lines[k])) = cleanLabel(lines[k])

\* ------------------------------------------------------------------------
\* C14: two calls of parseFlowchart with the same input return the same
\* output, also on the same CppParser with other calls in between; every
\* call starts with fresh ScopeStack, SwitchContext, IgnoreDepth and
\* node-id counter.
\* ------------------------------------------------------------------------
C14_Deterministic ==
    /\ \A a, b \in 1..Len(returned) :
          returned[a][1] = returned[b][1] => returned[a][2] = returned[b][2]
    /\ (pc = "loop" /\ i = 0) =>
          /\ stack = << Start >> /\ switchStack = <<>>
          /\ ignoreBlockLevel = 0 /\ nodeIdCounter = 0
          /\ mermaid = Header \o << EdgeDecl(Start, NodeId(0), "-->", <<>>) >>

\* the same input before and after a call that left a scope open
C14_Witness ==
    /\ Len(returned) = 3
    /\ returned[1][1] = << StCall >>
    /\ returned[2][1] = << StIf >>
    /\ returned[3][1] = << StCall >>

\* ------------------------------------------------------------------------
\* C15: parseFlowchart terminates on every finite statement sequence; each
\* statement is processed exactly once and in order, and processing neither
\* adds statements nor goes back to an earlier one.
\* ------------------------------------------------------------------------
C15_Terminates ==
    /\ [][/\ lines' = lines
          /\ \/ /\ i < Len(lines)
                /\ i' = i + 1
                /\ Len(nodeOf') = i'
                /\ \A k \in 1..i : nodeOf'[k] = nodeOf[k]
             \/ /\ i = Len(lines)
                /\ i' = i
                /\ pc' = "done"]_vars
    /\ <>(pc = "done" /\ i = Len(lines) /\ Len(nodeOf) = Len(lines))

C15_Witness ==
    /\ pc = "done"
    /\ Len(lines) = MaxTermLines
    /\ i = Len(lines)
    /\ \E k \in 1..i : nodeOf[k] # None

\* ------------------------------------------------------------------------
\* C16: the bottom element of ScopeStack is the synthetic root Start in every
\* reachable state; no statement removes or replaces it.
\* ------------------------------------------------------------------------
C16_BottomIsStart == Len(stack) >= 1 /\ stack[1] = Start

ScopeKeywords ==
    {KwIf, KwElse, KwSwitch, KwWhile, KwFor, KwDo, KwTry, KwCatch}

\* as amended: the stack starts as << Start >> and never gets empty; a step
\* changes the bottom element only by replacing it, at depth 1, with the node
\* of the statement just processed, and never when that statement is a jump or
\* begins with a keyword that opens a scope
C16_BottomReplacedOnlyAtDepthOne ==
    [][/\ i = 0 => stack = << Start >>
       /\ Len(stack') >= 1
       /\ (i' = i + 1 /\ stack'[1] # stack[1]) =>
             /\ Len(stack') = 1
             /\ nodeOf'[i'] # None
             /\ stack' = << nodeOf'[i'] >>
             /\ FirstWord(lines[i']) \notin ScopeKeywords \cup JumpKeywords]_vars

C16_Witness ==
    /\ i = 2
    /\ lines[1] = StCall
    /\ lines[2] = StCase1
    /\ nodeOf[2] # None
    /\ stack = << nodeOf[2] >>

\* ------------------------------------------------------------------------
\* C17: a statement containing a closing brace, processed with IgnoreDepth 0,
\* only pops ScopeStack (when its depth is above 1) and creates no node and
\* no edge; this includes `} else {`, `} while (x);` and `} catch (e) {`.
\* ------------------------------------------------------------------------
ClosesScope(text) ==
    /\ includes(text, "}")
    /\ ~matchDecl(text)
    /\ ~skipLine(text)
    /\ ignoreBlockLevel = 0

PoppedStack == IF Len(stack) > 1 THEN Pop(stack) ELSE stack

\* stated for the statements the claim names, those that begin with the brace
C17_ClosingBraceOnlyPops ==
    [][(i' = i + 1 /\ ClosesScope(lines[i']) /\ startsWith(lines[i'], <<"}">>)) =>
          /\ mermaid' = mermaid
          /\ nodeIdCounter' = nodeIdCounter
          /\ stack' = PoppedStack]_vars

\* as amended: after the pop only `}` and `};` stop; every other statement
\* with a closing brace goes on to create exactly one node and one edge to it,
\* and one that begins with the brace does so as an ordinary statement,
\* attached to the top the pop left and replacing it
C17_ClosingBraceThenNode ==
    [][(i' = i + 1 /\ ClosesScope(lines[i'])) =>
          LET text == lines[i']
              n == Len(mermaid)
              id == NodeId(nodeIdCounter)
          IN  IF text \in {StClose, StCloseSemi}
              THEN /\ mermaid' = mermaid
                   /\ nodeIdCounter' = nodeIdCounter
                   /\ stack' = PoppedStack
              ELSE /\ Len(mermaid') = n + 2
                   /\ SubSeq(mermaid', 1, n) = mermaid
                   /\ mermaid'[n + 1].kind = "node" /\ mermaid'[n + 1].id = id
                   /\ mermaid'[n + 2].kind = "edge" /\ mermaid'[n + 2].id = id
                   /\ nodeIdCounter' = nodeIdCounter + 1
                   /\ startsWith(text, <<"}">>) =>
                         /\ mermaid'[n + 1].label = cleanLabel(text)
                         /\ mermaid'[n + 2].src = Top(PoppedStack)
                         /\ stack' = ReplaceTop(PoppedStack, id)]_vars

C17_Witness ==
    /\ i = 2
    /\ lines[1] = StIf
    /\ lines[2] = StCloseElse
    /\ nodeOf[2] = NodeId(1)
    /\ stack = << NodeId(1) >>

\* the statements of the switches still open after k statements, outermost first
OpenSwitches(k) ==
    LET open == OpenBlocks(k)
    IN  {open[x] : x \in {y \in 1..Len(open) : FirstWord(lines[open[y]]) = KwSwitch}}

Max(S) == CHOOSE x \in S : \A y \in S : y <= x

\* ------------------------------------------------------------------------
\* C18: a case / default label gets its edge from the header of the
\* innermost switch that is still open, also after the closing brace of an
\* inner switch, and from the current parent when no switch is open.
\* ------------------------------------------------------------------------
C18_CaseAttachesToInnermostOpenSwitch ==
    [][(/\ i' = i + 1
        /\ \A k \in 1..i' : Plain(lines[k]) /\ FirstWord(lines[k]) \notin DeclKeywords
        /\ FirstWord(lines[i']) \in {KwCase, KwDefault}) =>
          LET target == IF OpenSwitches(i) = {} THEN Top(stack)
                        ELSE nodeOf[Max(OpenSwitches(i))]
              edge == mermaid'[Len(mermaid')]
          IN  edge.kind = "edge" /\ edge.id = nodeOf'[i'] /\ edge.src = target]_vars

\* ------------------------------------------------------------------------
\* C19: when a braced if / else or try / catch lies inside an open loop scope,
\* after its last closing brace the ScopeStack is as before the if / try up to
\* the top, the next statement is attached inside the loop's scope, and the
\* loop's own closing brace pops one level.
\* ------------------------------------------------------------------------
C19_BranchRestoresLoopScope ==
    lines \in NestedBranchInputs =>
        /\ i = 7 => Len(stack) = 2 /\ stack[1] = Start
        /\ i = 8 => /\ Len(stack) = 2 /\ stack[1] = Start
                    /\ \E e \in EdgeDecls :
                          /\ mermaid[e].id = nodeOf[8]
                          /\ mermaid[e].src \in ReachableFrom({nodeOf[1]})
        /\ i = 9 => Len(stack) = 1

IsDirective(text) ==
    \/ (Len(text) > 0 /\ text[1] = "#")
    \/ FirstWord(text) = KwTemplate
    \/ (Len(text) >= Len(KwUsingNamespace)
           /\ SubSeq(text, 1, Len(KwUsingNamespace)) = KwUsingNamespace)

Abs(n) == IF n < 0 THEN 0 - n ELSE n

\* ------------------------------------------------------------------------
\* C21: a statement processed while IgnoreDepth > 0, and every preprocessor,
\* using-namespace or template statement, leaves ScopeStack, SwitchContext,
\* the node-id counter and the emitted nodes and edges unchanged; it may only
\* change IgnoreDepth, by at most 1 and never below 0.
\* ------------------------------------------------------------------------
C21_IgnoredStatementFrame ==
    [][(i' = i + 1 /\ (ignoreBlockLevel > 0 \/ IsDirective(lines[i']))) =>
          /\ stack' = stack
          /\ switchStack' = switchStack
          /\ nodeIdCounter' = nodeIdCounter
          /\ mermaid' = mermaid
          /\ nodeOf'[i'] = None
          /\ Abs(ignoreBlockLevel' - ignoreBlockLevel) <= 1
          /\ ignoreBlockLevel' >= 0
          /\ IsDirective(lines[i']) => ignoreBlockLevel' = ignoreBlockLevel]_vars

\* a member and a template header processed inside a struct body
C21_Witness ==
    /\ i = 3
    /\ lines[1] = StStruct
    /\ lines[2] = StMember
    /\ lines[3] = StTemplate
    /\ ignoreBlockLevel = 1
    /\ nodeIdCounter = 0
    /\ stack = << Start >>

\* the positions of the node declarations of the output, in order of emission
RECURSIVE NodeDeclSeq(_)
NodeDeclSeq(n) ==
    IF n = 0 THEN <<>>
    ELSE IF mermaid[n].kind = "node" THEN Append(NodeDeclSeq(n - 1), mermaid[n].id)
    ELSE NodeDeclSeq(n - 1)

\* ------------------------------------------------------------------------
\* C22: node ids come from a counter that starts at 0 and grows by 1 per
\* created node: after k nodes the declared ids are exactly Node0..Node(k-1),
\* each declared once, and a statement that creates no node consumes no id.
\* ------------------------------------------------------------------------
C22_IdsAreDense ==
    LET ids == NodeDeclSeq(Len(mermaid))
    IN  /\ Len(ids) = nodeIdCounter
        /\ \A k \in 1..Len(ids) : ids[k] = NodeId(k - 1)
        /\ Cardinality({k \in 1..i : nodeOf[k] # None}) = Len(ids)
        /\ \A k \in 1..i :
              nodeOf[k] # None =>
                 nodeOf[k] = NodeId(Cardinality({j \in 1..(k - 1) : nodeOf[j] # None}))

\* three nodes from four statements, one of which created none
C22_Witness ==
    /\ i = 4
    /\ nodeOf[1] = NodeId(0)
    /\ nodeOf[2] = None
    /\ nodeOf[3] = NodeId(1)
    /\ nodeOf[4] = NodeId(2)
    /\ DeclaredIds = {NodeId(0), NodeId(1), NodeId(2)}

\* the edge declarations of the output that point to id
Inbound(id) == {e \in EdgeDecls : mermaid[e].id = id}

\* ------------------------------------------------------------------------
\* C23: every created node has exactly one inbound edge in the output, the
\* synthetic root edge to the first node included: no node is the target of
\* two emitted edges.
\* ------------------------------------------------------------------------
C23_OneInboundEdge ==
    \A id \in DeclaredIds : Cardinality(Inbound(id)) = 1

\* the keywords whose statement carries a parenthesized condition
ConditionKeywords == {KwIf, KwSwitch, KwWhile, KwFor, KwCatch}

\* the position of the "(" that follows the keyword kw at the start of text,
\* whitespace allowed in between; 0 when there is none
GroupOpen(text, kw) ==
    LET rest == {q \in (Len(kw) + 1)..Len(text) : text[q] \notin Whitespace}
    IN  IF rest = {} THEN 0
        ELSE LET q == CHOOSE x \in rest : \A y \in rest : x <= y
             IN  IF text[q] = "(" THEN q ELSE 0

\* the position of the ")" that balances the "(" at q; 0 when there is none
GroupClose(text, q) ==
    LET depth(r) == Cardinality({x \in q..r : text[x] = "("})
                        - Cardinality({x \in q..r : text[x] = ")"})
        cl == {r \in (q + 1)..Len(text) : text[r] = ")" /\ depth(r) = 0}
    IN  IF q = 0 \/ cl = {} THEN 0 ELSE CHOOSE x \in cl : \A y \in cl : x <= y

\* kw (C): the text C between the parentheses, trimmed
Group(text, kw) ==
    LET q == GroupOpen(text, kw)
    IN  trim(SubSeq(text, q + 1, GroupClose(text, q) - 1))

\* ------------------------------------------------------------------------
\* C24: for a control statement `kw (C)` with C parenthesis-balanced and kw
\* one of if, switch, while, for, catch, extractCondition returns C trimmed,
\* also when C ends with `)` and when text with parentheses follows the group.
\* ------------------------------------------------------------------------
C24_ConditionIsTheGroup ==
    \A k \in 1..i :
        LET kw == FirstWord(lines[k])
            label == cleanLabel(lines[k])
        IN  (/\ nodeOf[k] # None
             /\ kw \in ConditionKeywords
             /\ GroupClose(label, GroupOpen(label, kw)) # 0)
                => extractCondition(label, kw) = Group(label, kw)

\* what cleanLabel puts in the place of one character
Escaped(ch) ==
    CASE ch = "\"" -> <<"'">>
      [] ch \in {"[", "]", "{", "}"} -> <<" ">>
      [] ch = "&" -> <<"&","a","m","p",";">>
      [] ch = "<" -> <<"&","l","t",";">>
      [] ch = ">" -> <<"&","g","t",";">>
      [] OTHER -> <<ch>>

\* the text after replacement and escaping
EscapedText(text) == Flatten([k \in 1..Len(text) |-> Escaped(text[k])])

ForbiddenInLabel == {"\"", "[", "]", "{", "}", "<", ">"}

\* ------------------------------------------------------------------------
\* C25: the result of cleanLabel has at most 50 characters and none of
\* " [ ] { } < >; when the text after replacement and escaping is longer than
\* 50 characters the result is its first 47 characters followed by `...`,
\* otherwise it is that text unchanged.
\* ------------------------------------------------------------------------
C25_LabelBounded ==
    \A k \in 1..i :
        nodeOf[k] # None =>
            LET result == cleanLabel(lines[k])
                full == EscapedText(lines[k])
            IN  /\ Len(result) <= 50
                /\ \A x \in 1..Len(result) : result[x] \notin ForbiddenInLabel
                /\ result = IF Len(full) > 50
                            THEN SubSeq(full, 1, 47) \o <<".", ".", ".">>
                            ELSE full
                /\ DeclOf(nodeOf[k]).class \in {"process", "default", "terminator"}
                      /\ FirstWord(lines[k]) # KwElse
                      => DeclOf(nodeOf[k]).label = result

\* a statement whose escaped text is cut inside an entity
C25_Witness ==
    /\ i = 1
    /\ lines[1] = StLongAmp
    /\ nodeOf[1] = NodeId(0)
    /\ Len(DeclOf(NodeId(0)).label) = 50
    /\ Len(lines[1]) <= 50

\* ------------------------------------------------------------------------
\* C26: an ordinary statement that is no control construct, also one whose
\* text begins with the letters of a keyword (`double x = 1;`, `format(s);`,
\* `ifstream f;`, `returnValue = 5;`, `default_value = 3;`), yields a process
\* or default node, replaces the ScopeStack top and keeps the depth.
\* ------------------------------------------------------------------------
C26_OrdinaryIsAnythingElse ==
    [][(i' = i + 1 /\ ignoreBlockLevel = 0 /\ IsOrdinary(lines[i'])) =>
          LET id == NodeId(nodeIdCounter)
              n == Len(mermaid)
          IN  /\ Len(mermaid') = n + 2
              /\ mermaid'[n + 1] =
                    [kind |-> "node", id |-> id, src |-> id, shape |-> "[]",
                     label |-> cleanLabel(lines[i']),
                     class |-> IF includes(lines[i'], "(") THEN "process"
                               ELSE "default"]
              /\ mermaid'[n + 2].kind = "edge"
              /\ mermaid'[n + 2].src = Top(stack) /\ mermaid'[n + 2].id = id
              /\ stack' = ReplaceTop(stack, id)
              /\ switchStack' = switchStack]_vars

\* ------------------------------------------------------------------------
\* C27: once a repository graph has been generated and shown, a backToRepo
\* message re-displays that graph at once, without the folder picker and
\* without generating again; the workflow is re-run only when no repo graph
\* was ever generated.
\* ------------------------------------------------------------------------
C27_BackShowsCachedGraph ==
    [][(/\ ext'.event = [type |-> "message", name |-> "backToRepo", runs |-> 1]
        /\ ext.lastRepoGraph # NoGraph) =>
          /\ ext'.html = [graph |-> ext.lastRepoGraph, mode |-> "REPO"]
          /\ ext'.pending = ext.pending]_vars

\* the async calls that wait for the folder picker
Picking(e) == {k \in 1..Len(e.pending) : e.pending[k].stage = "picking"}

\* ------------------------------------------------------------------------
\* C28: a refreshRepo message regenerates the graph with the folder selection
\* confirmed last and never opens the folder picker; cancelling the picker
\* (Esc) leaves cachedSelectedFolders and the displayed graph unchanged and
\* generates no graph.
\* ------------------------------------------------------------------------
C28_RefreshAndCancelFrame ==
    [][/\ ext'.cachedSelectedFolders = ext'.lastConfirmed
       /\ (ext'.event.type = "message" /\ ext'.event.name = "refreshRepo") =>
             /\ Len(ext'.pending) = Len(ext.pending) + ext'.event.runs
             /\ SubSeq(ext'.pending, 1, Len(ext.pending)) = ext.pending
             /\ \A k \in (Len(ext.pending) + 1)..Len(ext'.pending) :
                   ext'.pending[k] = Awaiting("generating", ext.lastConfirmed, <<>>)
             /\ ext'.cachedSelectedFolders = ext.cachedSelectedFolders
             /\ ext'.html = ext.html
       /\ (ext'.event.type = "pick" /\ ext'.event.name = "cancel") =>
             /\ ext'.cachedSelectedFolders = ext.cachedSelectedFolders
             /\ ext'.html = ext.html
             /\ ext'.lastRepoGraph = ext.lastRepoGraph
             /\ Len(ext'.pending) = Len(ext.pending) - 1
             /\ \E k \in Picking(ext) : ext'.pending = RemoveAt(ext.pending, k)]_vars

\* Refresh after a non-empty selection was confirmed and its graph rendered
C28_Witness ==
    /\ ext.event = [type |-> "message", name |-> "refreshRepo", runs |-> 1]
    /\ ext.lastConfirmed = {"src"}
    /\ ext.html = [graph |-> RepoGraph({"src"}), mode |-> "REPO"]
    /\ ext.pending = << Awaiting("generating", {"src"}, <<>>) >>

\* ------------------------------------------------------------------------
\* C29: after any sequence of commands and webview messages the open panel
\* has at most one message handler registered, so each message posted by the
\* webview triggers its action exactly once.
\* ------------------------------------------------------------------------
C29_OneHandler ==
    /\ ext.panel => ext.handlers <= 1
    /\ ext.event.type = "message" => ext.event.runs = 1

\* b is in the adjacency list of a
Adjacent(a, b) ==
    /\ a \in DOMAIN scan.adjacency
    /\ \E k \in 1..Len(scan.adjacency[a]) : scan.adjacency[a][k] = b

\* the ids of the files that are not in an ignored folder and, when folders
\* were selected, lie in a selected folder or below it
FilteredIds ==
    LET passes(path) ==
            /\ ~\E folder \in IgnoreFolders :
                   includesText(path, <<"/">> \o folder \o <<"/">>)
            /\ (scan.allowedFolders \in {Null, <<>>}
                  \/ \E a \in 1..Len(scan.allowedFolders) :
                         asRelativePath(dirname(path)) = scan.allowedFolders[a])
    IN  {scan.pathToId[k][2] :
            k \in {x \in 1..Len(scan.pathToId) : passes(scan.pathToId[x][1])}}

\* ------------------------------------------------------------------------
\* C30: in the result of generateDependencyGraph the adjacency relation is
\* symmetric and irreflexive and has no duplicates, and every id in a list is
\* the id of a file that passed the folder filter.
\* ------------------------------------------------------------------------
C30_AdjacencySymmetric ==
    scan.pc = "done" =>
        /\ \A a \in DOMAIN scan.adjacency :
              /\ ~Adjacent(a, a)
              /\ \A j, k \in 1..Len(scan.adjacency[a]) :
                    scan.adjacency[a][j] = scan.adjacency[a][k] => j = k
              /\ \A k \in 1..Len(scan.adjacency[a]) :
                    /\ scan.adjacency[a][k] \in FilteredIds
                    /\ Adjacent(scan.adjacency[a][k], a)
        /\ DOMAIN scan.adjacency \subseteq FilteredIds

\* a full scan where src/a.h includes itself, lib/a.h includes a.h (found as
\* src/a.h) and m.c, and src/m.c includes a.h twice
C30_Witness ==
    /\ scan.pc = "done"
    /\ scan.allowedFolders = Null
    /\ scan.contents[PathSrcA] = << <<"a",".","h">> >>
    /\ scan.contents[PathSrcM] = << <<"a",".","h">>, <<"a",".","h">> >>
    /\ Len(scan.edges) = 4
    /\ scan.adjacency[FileId(0)] = << FileId(1), FileId(2) >>
    /\ scan.adjacency[FileId(1)] = << FileId(0), FileId(2) >>

====
